---- MODULE Spec2Model ----
(***************************************************************************)
(* A model of torch/_utils.py: the deferred validation of rebuilt sparse   *)
(* tensors (_rebuild_sparse_tensor, _validate_loaded_sparse_tensors and    *)
(* the module-level list _sparse_tensors_to_validate) and the cross-thread *)
(* exception carrier (KeyErrorMessage, ExceptionWrapper), the rebuild      *)
(* functions of dense and quantized tensors and of parameters, the         *)
(* chunking helpers, _get_device_index, and of torch/compiler/__init__.py  *)
(* the wrappers list_mode_options and disable.                             *)
(***************************************************************************)
EXTENDS Integers, Sequences, FiniteSets, TLC

VARIABLES
    sparse_tensors_to_validate, \* the module-level list (_utils.py:214)
    nextId,                     \* identity of the next tensor object created
    drains,                     \* number of completed _validate_loaded_sparse_tensors calls
    lastCall,                   \* the last call of the sparse component and how it ended
    examined,                   \* the entries the last drain passed to a validator, in order
    failedDrains,               \* the drains that raised: their number, and nextId then
    registered,                 \* the tensors a rebuild returned, each with the number of drains before it
    validated                   \* every entry a drain passed to a validator, with the drain's number

VARIABLES
    original,                   \* the error on the worker side: sys.exc_info() while in flight
    wrapped,                    \* whether the ExceptionWrapper has been constructed
    wrapper,                    \* the attributes of the ExceptionWrapper object
    captureArgs,                \* what ExceptionWrapper.__init__ was given: exc_info and where
    lastRaised,                 \* how the last reraise() ended
    reraises                    \* number of reraise() calls made

VARIABLES
    rebuilt,                    \* the last call of a dense/quantized/parameter rebuild function
    hooksInvoked                \* number of calls made to a hook of a backward_hooks argument

VARIABLES
    takeCall,                   \* the arguments of the _take_tensors call: tensors, size_limit
    takePhase,                  \* where the generator is: not called, in its loop, exhausted
    takePos,                    \* position in tensors of the next tensor of the loop
    buf_dict,                   \* the generator's buf_dict, its keys in insertion order
    chunks,                     \* the chunks yielded so far, in yield order
    reordered                   \* what _reorder_tensors_as returned for the chunks

VARIABLES
    devCall                     \* the _get_device_index call: what it read, was given, and how it ended

VARIABLES
    compilerModule,             \* torch.compiler: not imported, imported, or its import failed
    compilerCalls               \* the calls made into torch.compiler and how they ended, in order

sparseVars == <<sparse_tensors_to_validate, nextId, drains, lastCall, examined, failedDrains,
                registered, validated>>

excVars == <<original, wrapped, wrapper, captureArgs, lastRaised, reraises>>

rebuildVars == <<rebuilt, hooksInvoked>>

takeVars == <<takeCall, takePhase, takePos, buf_dict, chunks, reordered>>

deviceVars == <<devCall>>

compilerVars == <<compilerModule, compilerCalls>>

vars == <<sparseVars, excVars, rebuildVars, takeVars, deviceVars, compilerVars>>

\* what the actions of one component leave alone
notSparseVars == <<excVars, rebuildVars, takeVars, deviceVars, compilerVars>>

notExcVars == <<sparseVars, rebuildVars, takeVars, deviceVars, compilerVars>>

notRebuildVars == <<sparseVars, excVars, takeVars, deviceVars, compilerVars>>

notTakeVars == <<sparseVars, excVars, rebuildVars, deviceVars, compilerVars>>

notDeviceVars == <<sparseVars, excVars, rebuildVars, takeVars, compilerVars>>

notCompilerVars == <<sparseVars, excVars, rebuildVars, takeVars, deviceVars>>

None == "None"

----------------------------------------------------------------------------
(* Bounds of the model. *)

\* rebuild calls in one run (also bounds the tensor identities)
MaxTensors == 2
\* drain calls in one run
MaxDrains == 2
\* the largest index value offered to a rebuild; the dimension has size MaxIndex
MaxIndex == 1
\* reraise() calls on one wrapper
MaxReraises == 2
\* the longest tuple given as a state blob to _rebuild_parameter_with_state
MaxStateLen == 3
\* the longest sequence of tensors given to _take_tensors
MaxTake == 3
\* the largest byte size of one tensor
MaxBytes == 2
\* the largest size_limit
MaxLimit == 2
\* the largest device index
MaxDevice == 1
\* calls into torch.compiler in one run
MaxCalls == 3

----------------------------------------------------------------------------
(* Sparse tensors.  A tensor is one-dimensional with one stored element:   *)
(* `indices` is the coordinate of that element (COO) or its plain index    *)
(* (compressed layouts), `size` the length of the dimension.               *)

SparseCompressedLayouts == {"sparse_csr", "sparse_csc", "sparse_bsr", "sparse_bsc"}

SparseLayouts == {"sparse_coo"} \cup SparseCompressedLayouts

\* layouts a caller may pass; "strided" stands for every non-sparse layout
AllLayouts == SparseLayouts \cup {"strided"}

IndexValues == 0 .. MaxIndex

\* the `data` tuples offered to _rebuild_sparse_tensor: 3 or 4 fields
DataTuples ==
    [len : {3}, indices : IndexValues, size : {MaxIndex}, is_coalesced : {None}]
        \cup
    [len : {4}, indices : IndexValues, size : {MaxIndex}, is_coalesced : {None, "True"}]

\* torch._validate_sparse_coo_tensor_args: the index bound check
ValidateSparseCooTensorArgs(indices, size, is_coalesced) ==
    IF indices >= 0 /\ indices < size THEN "none" ELSE "StructuralError"

\* torch._validate_sparse_compressed_tensor_args: the plain index bound check
ValidateSparseCompressedTensorArgs(plain_indices, size, layout) ==
    IF plain_indices >= 0 /\ plain_indices < size THEN "none" ELSE "StructuralError"

\* torch.sparse_coo_tensor(..., check_invariants=False): no check, a new object
SparseCooTensor(id, indices, size, is_coalesced) ==
    [id |-> id, layout |-> "sparse_coo", indices |-> indices, size |-> size,
     is_coalesced |-> is_coalesced]

\* torch.sparse_compressed_tensor(..., check_invariants=False)
SparseCompressedTensor(id, plain_indices, size, layout) ==
    [id |-> id, layout |-> layout, indices |-> plain_indices, size |-> size,
     is_coalesced |-> None]

\* the body of the loop of _validate_loaded_sparse_tensors for one entry:
\* the error it raises, or "none"
ValidateEntry(t) ==
    IF t.layout = "sparse_coo"
    THEN ValidateSparseCooTensorArgs(t.indices, t.size, t.is_coalesced)
    ELSE IF t.layout \in SparseCompressedLayouts
    THEN ValidateSparseCompressedTensorArgs(t.indices, t.size, t.layout)
    ELSE "NotImplementedError"

\* a drain that goes through the whole list and raises for the last
\* offending entry
LastOffending(list) ==
    LET bad == {i \in 1 .. Len(list) : ValidateEntry(list[i]) # "none"}
    IN IF bad = {} THEN 0 ELSE CHOOSE i \in bad : \A j \in bad : i >= j

\* position of the first entry whose validation raises, 0 when none does
FirstOffending(list) ==
    LET bad == {i \in 1 .. Len(list) : ValidateEntry(list[i]) # "none"}
    IN IF bad = {} THEN 0 ELSE CHOOSE i \in bad : \A j \in bad : i <= j

----------------------------------------------------------------------------
(* Initial state: the list is empty, nothing was called. *)

\* the result of a call that returned no tensor
NoTensor == [id |-> 0, layout |-> None, indices |-> 0, size |-> 0, is_coalesced |-> None]

\* the `data` of a call that takes none
NoData == [len |-> 0, indices |-> 0, size |-> 0, is_coalesced |-> None]

NoCall == [op |-> "none", outcome |-> "none", error |-> "none", result |-> NoTensor,
           layout |-> None, data |-> NoData, before |-> <<>>]

SparseInit ==
    /\ sparse_tensors_to_validate = <<>>
    /\ nextId = 1
    /\ drains = 0
    /\ lastCall = NoCall
    /\ examined = <<>>
    /\ failedDrains = {}
    /\ registered = {}
    /\ validated = <<>>

----------------------------------------------------------------------------
(* _rebuild_sparse_tensor(layout, data) *)

\* a rebuild that checks the invariants when it constructs the tensor
RebuildOutcomeEager(layout, data) ==
    IF layout \in SparseLayouts /\ ~(data.indices >= 0 /\ data.indices < data.size)
    THEN [outcome |-> "raised", error |-> "StructuralError", result |-> NoTensor]
    ELSE IF layout = "sparse_coo"
    THEN [outcome |-> "returned", error |-> "none",
          result |-> SparseCooTensor(nextId, data.indices, data.size, data.is_coalesced)]
    ELSE IF layout \in SparseCompressedLayouts /\ data.len = 4
    THEN [outcome |-> "returned", error |-> "none",
          result |-> SparseCompressedTensor(nextId, data.indices, data.size, layout)]
    ELSE [outcome |-> "raised", error |-> "NotImplementedError", result |-> NoTensor]

\* a rebuild whose second branch takes every layout that is not COO
RebuildOutcomeAnyLayout(layout, data) ==
    IF layout = "sparse_coo"
    THEN [outcome |-> "returned", error |-> "none",
          result |-> SparseCooTensor(nextId, data.indices, data.size,
                                     IF data.len = 3 THEN None ELSE data.is_coalesced)]
    ELSE IF data.len = 4
    THEN [outcome |-> "returned", error |-> "none",
          result |-> SparseCompressedTensor(nextId, data.indices, data.size, layout)]
    ELSE [outcome |-> "raised", error |-> "ValueError", result |-> NoTensor]

\* how the call ends and the tensor it returns
RebuildOutcome(layout, data) ==
    IF layout = "sparse_coo"
    THEN [outcome |-> "returned", error |-> "none",
          result |-> SparseCooTensor(nextId, data.indices, data.size,
                                     IF data.len = 3 THEN None ELSE data.is_coalesced)]
    ELSE IF layout \in SparseCompressedLayouts
    THEN IF data.len = 4
         THEN [outcome |-> "returned", error |-> "none",
               result |-> SparseCompressedTensor(nextId, data.indices, data.size, layout)]
         \* the 4-name unpacking of a 3-tuple
         ELSE [outcome |-> "raised", error |-> "ValueError", result |-> NoTensor]
    ELSE [outcome |-> "raised", error |-> "NotImplementedError", result |-> NoTensor]

\* a rebuild that registers its tensor at the front of the list
RebuildPrepend(list, r) ==
    IF r.outcome = "returned" THEN <<r.result>> \o list ELSE list

\* the list after the call: the returned tensor is appended
RebuildAppend(list, r) ==
    IF r.outcome = "returned" THEN Append(list, r.result) ELSE list

RebuildSparseTensor(layout, data) ==
    /\ nextId <= MaxTensors
    /\ LET r == RebuildOutcome(layout, data)
       IN /\ sparse_tensors_to_validate' = RebuildAppend(sparse_tensors_to_validate, r)
          /\ lastCall' = [op |-> "rebuild", outcome |-> r.outcome, error |-> r.error,
                          result |-> r.result, layout |-> layout, data |-> data,
                          before |-> sparse_tensors_to_validate]
          /\ registered' = IF r.outcome = "returned"
                           THEN registered \cup {[id |-> r.result.id, after |-> drains]}
                           ELSE registered
    /\ nextId' = nextId + 1
    /\ UNCHANGED <<drains, examined, failedDrains, validated>>
    /\ UNCHANGED notSparseVars

----------------------------------------------------------------------------
(* _validate_loaded_sparse_tensors() *)

\* a drain whose clear() is not in a finally clause
ListAfterDrainNoFinally(list, k) == IF k = 0 THEN <<>> ELSE list

\* a drain that removes only the entries it has been through
ListAfterDrainKeepRest(list, k) == IF k = 0 THEN <<>> ELSE SubSeq(list, k + 1, Len(list))

\* a drain without the clear()
ListAfterDrainNoClear(list, k) == list

\* the list when the call hands control back: the finally clause clears it,
\* whatever the position k of the entry that raised (0: none)
ListAfterDrain(list, k) == <<>>

ValidateLoadedSparseTensors ==
    /\ drains < MaxDrains
    /\ LET list == sparse_tensors_to_validate
           k == FirstOffending(list)
       IN /\ examined' = IF k = 0 THEN list ELSE SubSeq(list, 1, k)
          /\ lastCall' = [op |-> "validate",
                          outcome |-> IF k = 0 THEN "returned" ELSE "raised",
                          error |-> IF k = 0 THEN "none" ELSE ValidateEntry(list[k]),
                          result |-> NoTensor, layout |-> None, data |-> NoData,
                          before |-> list]
          /\ failedDrains' = IF k = 0 THEN failedDrains ELSE failedDrains \cup {[drain |-> drains + 1, nextId |-> nextId]}
          /\ validated' = validated \o [i \in 1 .. (IF k = 0 THEN Len(list) ELSE k) |->
                                            [id |-> list[i].id, drain |-> drains + 1]]
          /\ sparse_tensors_to_validate' = ListAfterDrain(list, k)
    /\ drains' = drains + 1
    /\ UNCHANGED <<nextId, registered>>
    /\ UNCHANGED notSparseVars

----------------------------------------------------------------------------

SparseNext ==
    \/ \E layout \in AllLayouts, data \in DataTuples : RebuildSparseTensor(layout, data)
    \/ ValidateLoadedSparseTensors


----------------------------------------------------------------------------
(* Strings.  A string is a sequence of pieces; "\n" is the newline.  A     *)
(* string value also has a class: str, or the subclass KeyErrorMessage.    *)

Str(text) == [cls |-> "str", text |-> text]

\* KeyErrorMessage(msg): the same text, the subclass
KeyErrorMessage(text) == [cls |-> "KeyErrorMessage", text |-> text]

RECURSIVE Escape(_)
\* the escaping pass of str.__repr__
Escape(text) ==
    IF text = <<>> THEN <<>>
    ELSE LET c == Head(text)
         IN (IF c = "\n" THEN <<"\\", "n">>
             ELSE IF c = "'" THEN <<"\\", "'">>
             ELSE <<c>>) \o Escape(Tail(text))

\* str.__repr__: quoted and escaped
StrRepr(v) == <<"'">> \o Escape(v.text) \o <<"'">>

\* KeyErrorMessage.__repr__: return self
KeyErrorMessageRepr(v) == v.text

\* repr(v)
Repr(v) == IF v.cls = "KeyErrorMessage" THEN KeyErrorMessageRepr(v) ELSE StrRepr(v)

----------------------------------------------------------------------------
(* Exception classes, as far as reraise() can tell them apart:             *)
(*   name       __name__                                                   *)
(*   isKeyError the class is KeyError itself (exc_type == KeyError)        *)
(*   message    getattr(exc_type, "message", None) is truthy               *)
(*   strIsRepr  str(e) is repr(e.args[0]), KeyError's __str__              *)
(*   ctorPos    how exc_type(msg) ends: "ok", or the error it raises       *)
(*   ctorKw     how exc_type(message=msg) ends                             *)

ExcType(name, isKeyError, message, strIsRepr, ctorPos, ctorKw) ==
    [name |-> name, isKeyError |-> isKeyError, message |-> message,
     strIsRepr |-> strIsRepr, ctorPos |-> ctorPos, ctorKw |-> ctorKw]

ValueErrorType == ExcType("ValueError", FALSE, FALSE, FALSE, "ok", "TypeError")
KeyErrorType == ExcType("KeyError", TRUE, FALSE, TRUE, "ok", "TypeError")
RuntimeErrorType == ExcType("RuntimeError", FALSE, FALSE, FALSE, "ok", "TypeError")
TypeErrorType == ExcType("TypeError", FALSE, FALSE, FALSE, "ok", "TypeError")
AttributeErrorType == ExcType("AttributeError", FALSE, FALSE, FALSE, "ok", "TypeError")

\* the classes an error raised by a constructor can have
ErrorTypeNamed(name) ==
    IF name = "TypeError" THEN TypeErrorType
    ELSE IF name = "ValueError" THEN ValueErrorType
    ELSE RuntimeErrorType

\* exc_info[0] when no error is being handled
NoExcType == ExcType("NoneType", FALSE, FALSE, FALSE, "TypeError", "TypeError")

\* the classes of the errors captured in the model
ExcTypes == {
    ValueErrorType,
    KeyErrorType,
    \* a subclass of KeyError
    ExcType("MissingKeyError", FALSE, FALSE, TRUE, "ok", "TypeError"),
    \* needs five arguments
    ExcType("UnicodeDecodeError", FALSE, FALSE, FALSE, "TypeError", "TypeError"),
    \* its constructor rejects the message with an error of its own
    ExcType("StrictError", FALSE, FALSE, FALSE, "ValueError", "TypeError"),
    \* first argument is not the message; takes message=
    ExcType("MessageFieldError", FALSE, TRUE, FALSE, "TypeError", "ok"),
    \* a class attribute `message`, the constructor of Exception
    ExcType("MessageAttrError", FALSE, TRUE, FALSE, "ok", "TypeError"),
    \* a class attribute `message`, two required arguments
    ExcType("MessageTwoArgsError", FALSE, TRUE, FALSE, "TypeError", "TypeError") }

\* an exception object: its class, its argument, and __cause__, __context__
\* (the name of the class of the error being handled when it was raised) and
\* __suppress_context__
Exc(type, arg, cause, context, suppress_context) ==
    [type |-> type, arg |-> arg, cause |-> cause, context |-> context,
     suppress_context |-> suppress_context]

\* str(e)
Display(e) == IF e.type.strIsRepr THEN Repr(e.arg) ELSE e.arg.text

----------------------------------------------------------------------------
(* The error on the worker side. *)

\* messages of the errors raised in the model
Texts == { <<"boom">>, <<"bad", "\n", "key">> }

\* the traceback of an error raised in the worker: its frames
WorkerTraceback == <<"worker_loop", "fetch">>

NoExc == Exc(NoExcType, Str(<<>>), None, None, FALSE)

NoOriginal == [state |-> "none", exc |-> NoExc, tb |-> <<>>]

\* sys.exc_info(): (type, value, traceback), all None outside a handler
SysExcInfo(o) ==
    IF o.state = "inflight"
    THEN [type |-> o.exc.type, value |-> o.exc, tb |-> o.tb]
    ELSE [type |-> NoExcType, value |-> NoExc, tb |-> <<>>]

RECURSIVE FormatFrames(_)
FormatFrames(tb) ==
    IF tb = <<>> THEN <<>>
    ELSE <<"  File ", Head(tb), "\n">> \o FormatFrames(Tail(tb))

\* "".join(traceback.format_exception(type, value, tb))
FormatException(info) ==
    IF info.type = NoExcType THEN <<"NoneType: None", "\n">>
    ELSE (IF info.tb = <<>> THEN <<>>
          ELSE <<"Traceback (most recent call last):", "\n">> \o FormatFrames(info.tb))
         \o <<info.type.name, ": ">> \o Display(info.value) \o <<"\n">>

----------------------------------------------------------------------------
(* ExceptionWrapper *)

\* the default of the `where` parameter
DefaultWhere == <<"in background">>

\* the `where` arguments given in the model; <<>> stands for "not given"
WhereArgs == { <<>>, <<"in worker 3">> }

\* a wrapper that keeps exc_info, traceback included
NewWrapperKeepsExcInfo(info, where) ==
    [exc_type |-> info.type, exc_msg |-> FormatException(info), where |-> where,
     exc_info |-> info]

\* __init__: the attributes set
NewWrapper(info, where) ==
    [exc_type |-> info.type, exc_msg |-> FormatException(info), where |-> where]

\* a message that leaves the origin label out
CompositeMessageNoWhere(w) ==
    <<"Caught ", w.exc_type.name, ".", "\n", "Original ">> \o w.exc_msg

\* the message built first by reraise()
CompositeMessage(w) ==
    <<"Caught ", w.exc_type.name, " ">> \o w.where \o <<".", "\n", "Original ">> \o w.exc_msg

Raised(e, origin) == [returned |-> FALSE, exc |-> e, origin |-> origin]

\* a try block whose last statement, `raise exception`, is missing
ConstructAndRaiseNoRaise(type, msg) ==
    IF type.ctorPos = "ok"
    THEN [returned |-> TRUE, exc |-> Exc(type, msg, None, None, FALSE), origin |-> "positional"]
    ELSE IF type.ctorPos = "TypeError"
    THEN Raised(Exc(RuntimeErrorType, msg, None, "TypeError", TRUE), "fallback")
    ELSE Raised(Exc(ErrorTypeNamed(type.ctorPos), Str(<<"constructor">>), None, None, FALSE),
                "constructor")

\* the try block: exc_type(msg), RuntimeError(msg) from None on TypeError
ConstructAndRaise(type, msg) ==
    IF type.ctorPos = "ok"
    THEN Raised(Exc(type, msg, None, None, FALSE), "positional")
    ELSE IF type.ctorPos = "TypeError"
    THEN Raised(Exc(RuntimeErrorType, msg, None, "TypeError", TRUE), "fallback")
    ELSE Raised(Exc(ErrorTypeNamed(type.ctorPos), Str(<<"constructor">>), None, None, FALSE),
                "constructor")

\* raise self.exc_type(message=msg)
RaiseWithMessageField(type, msg) ==
    IF type.ctorKw = "ok"
    THEN Raised(Exc(type, msg, None, None, FALSE), "keyword")
    ELSE Raised(Exc(ErrorTypeNamed(type.ctorKw), Str(<<"constructor">>), None, None, FALSE),
                "constructor")

\* the message passed on for a KeyError, not wrapped
KeyErrorArgPlain(text) == Str(text)

\* the message passed on for a KeyError
KeyErrorArg(text) == KeyErrorMessage(text)

\* reraise(): how the call ends
Reraise(w) ==
    IF w.exc_type = NoExcType
    THEN \* None has no __name__
         Raised(Exc(AttributeErrorType, Str(<<"__name__">>), None, None, FALSE), "attribute")
    ELSE LET msg == CompositeMessage(w)
         IN IF w.exc_type.isKeyError
            THEN ConstructAndRaise(w.exc_type, KeyErrorArg(msg))
            ELSE IF w.exc_type.message
            THEN RaiseWithMessageField(w.exc_type, Str(msg))
            ELSE ConstructAndRaise(w.exc_type, Str(msg))

\* the wrapper's attributes after reraise(): none is assigned
WrapperAfterReraise(w) == w

NoWrapper == [exc_type |-> NoExcType, exc_msg |-> <<>>, where |-> <<>>]

NoCapture == [info |-> SysExcInfo(NoOriginal), where |-> <<>>]

NoRaise == [returned |-> FALSE, exc |-> NoExc, origin |-> "none"]

ExcInit ==
    /\ original = NoOriginal
    /\ wrapped = FALSE
    /\ wrapper = NoWrapper
    /\ captureArgs = NoCapture
    /\ lastRaised = NoRaise
    /\ reraises = 0

\* an error is raised in the worker and is being handled
RaiseInWorker(type, text) ==
    /\ original.state = "none"
    /\ original' = [state |-> "inflight", exc |-> Exc(type, Str(text), None, None, FALSE),
                    tb |-> WorkerTraceback]
    /\ UNCHANGED <<wrapped, wrapper, captureArgs, lastRaised, reraises>>
    /\ UNCHANGED notExcVars

\* ExceptionWrapper(where=...) or ExceptionWrapper(): exc_info is sys.exc_info()
Capture(whereArg) ==
    /\ ~wrapped
    /\ LET info == SysExcInfo(original)
           where == IF whereArg = <<>> THEN DefaultWhere ELSE whereArg
       IN /\ wrapper' = NewWrapper(info, where)
          /\ captureArgs' = [info |-> info, where |-> whereArg]
    /\ wrapped' = TRUE
    /\ UNCHANGED <<original, lastRaised, reraises>>
    /\ UNCHANGED notExcVars

\* the original error is changed after the capture: new args, or no traceback
MutateOriginal ==
    /\ original.state = "inflight"
    /\ wrapped
    /\ \/ original' = [original EXCEPT !.exc.arg = Str(<<"edited">>)]
       \/ original' = [original EXCEPT !.tb = <<>>]
    /\ original' # original
    /\ UNCHANGED <<wrapped, wrapper, captureArgs, lastRaised, reraises>>
    /\ UNCHANGED notExcVars

\* the handler is left: the original error and its traceback are dropped
DiscardOriginal ==
    /\ original.state = "inflight"
    /\ original' = [state |-> "discarded", exc |-> NoExc, tb |-> <<>>]
    /\ UNCHANGED <<wrapped, wrapper, captureArgs, lastRaised, reraises>>
    /\ UNCHANGED notExcVars

\* wrapper.reraise()
ReraiseCall ==
    /\ wrapped
    /\ reraises < MaxReraises
    /\ lastRaised' = Reraise(wrapper)
    /\ wrapper' = WrapperAfterReraise(wrapper)
    /\ reraises' = reraises + 1
    /\ UNCHANGED <<original, wrapped, captureArgs>>
    /\ UNCHANGED notExcVars

ExcNext ==
    \/ \E type \in ExcTypes, text \in Texts : RaiseInWorker(type, text)
    \/ \E whereArg \in WhereArgs : Capture(whereArg)
    \/ MutateOriginal
    \/ DiscardOriginal
    \/ ReraiseCall

----------------------------------------------------------------------------
(* The rebuild functions of dense tensors, quantized tensors and           *)
(* parameters.  An object is the record of what was set on it; `effects`   *)
(* is the sequence of the calls a rebuild function made, in order.         *)

\* a scale or zero-point argument: a Python list, a tensor, or a number
QParam(container, dtype, device) ==
    [container |-> container, dtype |-> dtype, device |-> device]

NoParam == QParam("none", "none", "none")

\* the scheme tags of the per-channel branch
PerChannelSchemes == {"per_channel_affine", "per_channel_affine_float_qparams"}

\* scales and zero-points as they come out of the pickle
ScalesInputs == {QParam("list", "pyfloat", "none"), QParam("tensor", "double", "cpu"),
                 QParam("tensor", "float", "cpu")}

ZeroPointsInputs == {QParam("list", "pyint", "none"), QParam("tensor", "long", "cpu"),
                     QParam("tensor", "float", "cpu")}

\* quantizer_params: (qscheme, scale, zero_point) or (qscheme, scales, zero_points, axis);
\* the two symmetric scheme tags have no branch in the dispatch
QuantizerParams ==
    [qscheme : {"per_tensor_affine", "per_tensor_symmetric"},
     scales : {QParam("scalar", "pyfloat", "none")},
     zero_points : {QParam("scalar", "pyint", "none")}]
        \cup
    [qscheme : PerChannelSchemes \cup {"per_channel_symmetric"},
     scales : ScalesInputs, zero_points : ZeroPointsInputs]

NoQuantizerParams == [qscheme |-> None, scales |-> NoParam, zero_points |-> NoParam]

\* storage.device
Devices == {"cpu", "cuda"}

\* the backward_hooks arguments: an empty OrderedDict, one holding a hook
HooksArgs == {"hooks_empty", "hooks_with_hook"}

\* the metadata arguments: None, an empty dict, a dict with a bit set
MetadataArgs == {None, "empty", "conj"}

\* an attribute map of a state blob: the value it gives to the attribute
\* `extra` and to `_backward_hooks`, "absent" when it has no such key; the map
\* with no key stands for {} and for None
AttrMaps == [extra : {"absent", "v1"}, hooks : {"absent", "hooks_of_state"}]

EmptyMap == [extra |-> "absent", hooks |-> "absent"]

\* the state blobs: a plain attribute map, or a tuple of maps
StateBlobs ==
    [isTuple : {FALSE}, parts : [1 .. 1 -> AttrMaps]]
        \cup
    [isTuple : {TRUE},
     parts : UNION {[1 .. n -> AttrMaps] : n \in 0 .. MaxStateLen}]

NoState == [isTuple |-> FALSE, parts |-> <<EmptyMap>>]

\* an object nothing has been set on
NewObj(cls, device) ==
    [cls |-> cls, device |-> device, bound |-> FALSE, requires_grad |-> FALSE,
     hooks |-> "unset", metadata |-> None, extra |-> "absent",
     scales |-> NoParam, zero_points |-> NoParam]

NoObj == NewObj(None, None)

Returned(obj, effects) ==
    [outcome |-> "returned", error |-> "none", obj |-> obj, effects |-> effects]

\* a call that raised, with the object it was working on
RaisedWith(error, obj, effects) ==
    [outcome |-> "raised", error |-> error, obj |-> obj, effects |-> effects]

\* _rebuild_tensor: an empty tensor of the storage's dtype and device, set_ on
\* the storage
RebuildTensor(device) ==
    [NewObj("Tensor", device) EXCEPT !.bound = TRUE]

\* tensor._backward_hooks = an OrderedDict of its own
StoreHooksFresh(obj, backward_hooks) == [obj EXCEPT !.hooks = "hooks_empty"]

\* tensor._backward_hooks = backward_hooks
StoreHooks(obj, backward_hooks) == [obj EXCEPT !.hooks = backward_hooks]

\* _rebuild_tensor_v2
RebuildTensorV2(device, requires_grad, backward_hooks, metadata) ==
    LET t1 == [RebuildTensor(device) EXCEPT !.requires_grad = requires_grad]
        \* `if metadata:` a dict with no key is falsy
        t2 == IF metadata \in {None, "empty"} THEN t1 ELSE [t1 EXCEPT !.metadata = metadata]
    IN Returned(StoreHooks(t2, backward_hooks),
                <<"tensor", "set_">>
                    \o (IF metadata \in {None, "empty"} THEN <<>> ELSE <<"set_tensor_metadata">>))

\* torch.tensor(list, dtype=dtype, device=device)
TensorOf(param, dtype, device) == QParam("tensor", dtype, device)

\* zero-points promoted to the dtype of the scales' branch, whatever the scheme
PromoteZeroPointsFloat(qscheme, zero_points, device) ==
    TensorOf(zero_points, "float", device)

\* the zero-points promoted from a list: long for per_channel_affine, float
\* for per_channel_affine_float_qparams
PromoteZeroPoints(qscheme, zero_points, device) ==
    IF qscheme = "per_channel_affine"
    THEN TensorOf(zero_points, "long", device)
    ELSE TensorOf(zero_points, "float", device)

\* the scales promoted from a list: double, or float
PromoteScales(qscheme, scales, device) ==
    IF qscheme = "per_channel_affine"
    THEN TensorOf(scales, "double", device)
    ELSE TensorOf(scales, "float", device)

\* a dispatch whose last branch allocates per channel instead of raising
QTensorAllocLenient(qp, device) ==
    IF qp.qscheme = "per_tensor_affine"
    THEN Returned([NewObj("QTensor", device) EXCEPT !.scales = qp.scales,
                                                     !.zero_points = qp.zero_points],
                  <<"_empty_affine_quantized">>)
    ELSE Returned([NewObj("QTensor", device) EXCEPT !.scales = qp.scales,
                                                     !.zero_points = qp.zero_points],
                  <<"_empty_per_channel_affine_quantized">>)

\* a dispatch that promotes each of scales and zero-points that is a list,
\* whatever the other is
QTensorAllocEach(qp, device) ==
    IF qp.qscheme = "per_tensor_affine"
    THEN Returned([NewObj("QTensor", device) EXCEPT !.scales = qp.scales,
                                                     !.zero_points = qp.zero_points],
                  <<"_empty_affine_quantized">>)
    ELSE IF qp.qscheme \in PerChannelSchemes
    THEN LET scales == IF qp.scales.container = "list"
                       THEN PromoteScales(qp.qscheme, qp.scales, device)
                       ELSE qp.scales
             zero_points == IF qp.zero_points.container = "list"
                            THEN PromoteZeroPoints(qp.qscheme, qp.zero_points, device)
                            ELSE qp.zero_points
         IN Returned([NewObj("QTensor", device) EXCEPT !.scales = scales,
                                                        !.zero_points = zero_points],
                     (IF qp.scales.container = "list" THEN <<"tensor">> ELSE <<>>)
                         \o (IF qp.zero_points.container = "list" THEN <<"tensor">> ELSE <<>>)
                         \o <<"_empty_per_channel_affine_quantized">>)
    ELSE RaisedWith("RuntimeError", NoObj, <<>>)

\* the dispatch on the scheme tag up to the allocation
QTensorAlloc(qp, device) ==
    IF qp.qscheme = "per_tensor_affine"
    THEN Returned([NewObj("QTensor", device) EXCEPT !.scales = qp.scales,
                                                     !.zero_points = qp.zero_points],
                  <<"_empty_affine_quantized">>)
    ELSE IF qp.qscheme \in PerChannelSchemes
    THEN LET both == qp.scales.container = "list" /\ qp.zero_points.container = "list"
             scales == IF both THEN PromoteScales(qp.qscheme, qp.scales, device)
                       ELSE qp.scales
             zero_points == IF both
                            THEN PromoteZeroPoints(qp.qscheme, qp.zero_points, device)
                            ELSE qp.zero_points
         IN Returned([NewObj("QTensor", device) EXCEPT !.scales = scales,
                                                        !.zero_points = zero_points],
                     (IF both THEN <<"tensor", "tensor">> ELSE <<>>)
                         \o <<"_empty_per_channel_affine_quantized">>)
    ELSE RaisedWith("RuntimeError", NoObj, <<>>)

\* _rebuild_qtensor
RebuildQTensor(device, qp, requires_grad, backward_hooks) ==
    LET a == QTensorAlloc(qp, device)
    IN IF a.outcome = "raised" THEN a
       ELSE Returned(StoreHooks([a.obj EXCEPT !.bound = TRUE,
                                              !.requires_grad = requires_grad],
                                backward_hooks),
                     a.effects \o <<"set_">>)

\* torch.nn.Parameter(data, requires_grad); the parameter is on the device of
\* data, which the rebuild functions never read
NewParameter(requires_grad) ==
    [NewObj("Parameter", None) EXCEPT !.bound = TRUE, !.requires_grad = requires_grad]

\* _rebuild_parameter
RebuildParameter(requires_grad, backward_hooks) ==
    Returned(StoreHooks(NewParameter(requires_grad), backward_hooks),
             <<"Parameter">>)

\* for k, v in m.items(): setattr(obj, k, v)
SetAttrs(obj, m) ==
    [obj EXCEPT !.extra = IF m.extra = "absent" THEN @ ELSE m.extra,
                !.hooks = IF m.hooks = "absent" THEN @ ELSE m.hooks]

\* one setattr for each key of the map
SetAttrCalls(m) ==
    (IF m.extra = "absent" THEN <<>> ELSE <<"setattr">>)
        \o (IF m.hooks = "absent" THEN <<>> ELSE <<"setattr">>)

\* a replay that takes the first two parts of a tuple of any length
SetObjStateLenient(obj, state) ==
    IF state.isTuple /\ Len(state.parts) < 2
    THEN RaisedWith("RuntimeError", obj, <<>>)
    ELSE LET dict_state == state.parts[1]
             slots_state == IF state.isTuple THEN state.parts[2] ELSE EmptyMap
         IN Returned(SetAttrs(SetAttrs(obj, dict_state), slots_state),
                     SetAttrCalls(dict_state) \o SetAttrCalls(slots_state))

\* _set_obj_state
SetObjState(obj, state) ==
    IF state.isTuple /\ Len(state.parts) # 2
    THEN RaisedWith("RuntimeError", obj, <<>>)
    ELSE LET dict_state == state.parts[1]
             slots_state == IF state.isTuple THEN state.parts[2] ELSE EmptyMap
         IN Returned(SetAttrs(SetAttrs(obj, dict_state), slots_state),
                     SetAttrCalls(dict_state) \o SetAttrCalls(slots_state))

\* _rebuild_parameter_with_state
RebuildParameterWithState(requires_grad, backward_hooks, state) ==
    LET param == StoreHooks(NewParameter(requires_grad), backward_hooks)
        r == SetObjState(param, state)
    IN [r EXCEPT !.effects = <<"Parameter">> \o r.effects]

\* the arguments of a call, those a function does not take left at a default
RebuildArgs(device, requires_grad, backward_hooks, metadata, qp, state) ==
    [device |-> device, requires_grad |-> requires_grad, backward_hooks |-> backward_hooks,
     metadata |-> metadata, quantizer_params |-> qp, state |-> state]

NoRebuild ==
    [fn |-> "none", args |-> RebuildArgs(None, FALSE, None, None, NoQuantizerParams, NoState),
     result |-> RaisedWith("none", NoObj, <<>>)]

RebuildInit ==
    /\ rebuilt = NoRebuild
    /\ hooksInvoked = 0

\* no rebuild function calls an entry of backward_hooks
HooksInvokedBy(result) == 0

CallRebuildTensorV2(device, requires_grad, backward_hooks, metadata) ==
    LET r == RebuildTensorV2(device, requires_grad, backward_hooks, metadata)
    IN /\ rebuilt' = [fn |-> "_rebuild_tensor_v2",
                      args |-> RebuildArgs(device, requires_grad, backward_hooks, metadata,
                                           NoQuantizerParams, NoState),
                      result |-> r]
       /\ hooksInvoked' = hooksInvoked + HooksInvokedBy(r)
       /\ UNCHANGED notRebuildVars

CallRebuildQTensor(device, qp, requires_grad, backward_hooks) ==
    LET r == RebuildQTensor(device, qp, requires_grad, backward_hooks)
    IN /\ rebuilt' = [fn |-> "_rebuild_qtensor",
                      args |-> RebuildArgs(device, requires_grad, backward_hooks, None,
                                           qp, NoState),
                      result |-> r]
       /\ hooksInvoked' = hooksInvoked + HooksInvokedBy(r)
       /\ UNCHANGED notRebuildVars

CallRebuildParameter(requires_grad, backward_hooks) ==
    LET r == RebuildParameter(requires_grad, backward_hooks)
    IN /\ rebuilt' = [fn |-> "_rebuild_parameter",
                      args |-> RebuildArgs(None, requires_grad, backward_hooks, None,
                                           NoQuantizerParams, NoState),
                      result |-> r]
       /\ hooksInvoked' = hooksInvoked + HooksInvokedBy(r)
       /\ UNCHANGED notRebuildVars

CallRebuildParameterWithState(requires_grad, backward_hooks, state) ==
    LET r == RebuildParameterWithState(requires_grad, backward_hooks, state)
    IN /\ rebuilt' = [fn |-> "_rebuild_parameter_with_state",
                      args |-> RebuildArgs(None, requires_grad, backward_hooks, None,
                                           NoQuantizerParams, state),
                      result |-> r]
       /\ hooksInvoked' = hooksInvoked + HooksInvokedBy(r)
       /\ UNCHANGED notRebuildVars

RebuildNext ==
    \/ \E device \in Devices, requires_grad \in BOOLEAN, backward_hooks \in HooksArgs,
          metadata \in MetadataArgs :
            CallRebuildTensorV2(device, requires_grad, backward_hooks, metadata)
    \/ \E device \in Devices, qp \in QuantizerParams, requires_grad \in BOOLEAN,
          backward_hooks \in HooksArgs :
            CallRebuildQTensor(device, qp, requires_grad, backward_hooks)
    \/ \E requires_grad \in BOOLEAN, backward_hooks \in HooksArgs :
            CallRebuildParameter(requires_grad, backward_hooks)
    \/ \E requires_grad \in BOOLEAN, backward_hooks \in HooksArgs, state \in StateBlobs :
            CallRebuildParameterWithState(requires_grad, backward_hooks, state)

----------------------------------------------------------------------------
(* _take_tensors(tensors, size_limit) and _reorder_tensors_as.  The         *)
(* generator is run to exhaustion by its caller, one loop iteration at a   *)
(* time; a tensor is known by its position in the input.                   *)

\* tensor.type(): a dense and a sparse type
TensorTypes == {"torch.FloatTensor", "torch.sparse.FloatTensor"}

\* what the generator reads of a tensor: its type and the byte size computed
\* from numel() and element_size()
TensorKinds == [type : TensorTypes, bytes : 0 .. MaxBytes]

TensorSeqs ==
    UNION {{[i \in 1 .. n |-> [id |-> i, type |-> f[i].type, bytes |-> f[i].bytes]] :
                f \in [1 .. n -> TensorKinds]} : n \in 0 .. MaxTake}

SizeLimits == 1 .. MaxLimit

NoTakeCall == [tensors |-> <<>>, size_limit |-> 0]

TakeInit ==
    /\ takeCall = NoTakeCall
    /\ takePhase = "idle"
    /\ takePos = 0
    /\ buf_dict = <<>>
    /\ chunks = <<>>
    /\ reordered = <<>>

\* position of the key t in the dict, 0 when it has no such key
KeyIndex(dict, t) ==
    IF \E i \in DOMAIN dict : dict[i].t = t
    THEN CHOOSE i \in DOMAIN dict : dict[i].t = t
    ELSE 0

\* buf_dict[t] of a defaultdict: a missing key is inserted with [[], 0]
WithDefault(dict, t) ==
    IF KeyIndex(dict, t) = 0 THEN Append(dict, [t |-> t, buf |-> <<>>, size |-> 0]) ELSE dict

\* a test that looks at the buffer alone, not at the incoming tensor
NeedsYieldLate(bufSize, size, size_limit) == bufSize > size_limit

\* a test without the buf_and_size[1] > 0 conjunct
NeedsYieldNoGuard(bufSize, size, size_limit) == bufSize + size > size_limit

\* buf_and_size[1] + size > size_limit and buf_and_size[1] > 0
NeedsYield(bufSize, size, size_limit) ==
    bufSize + size > size_limit /\ bufSize > 0

\* the call: nothing runs until the first next()
TakeTensorsCall ==
    /\ takePhase = "idle"
    /\ \E tensors \in TensorSeqs, size_limit \in SizeLimits :
            takeCall' = [tensors |-> tensors, size_limit |-> size_limit]
    /\ takePhase' = "loop"
    /\ takePos' = 1
    /\ buf_dict' = <<>>
    /\ chunks' = <<>>
    /\ UNCHANGED reordered
    /\ UNCHANGED notTakeVars

\* one iteration of `for tensor in tensors`
TakeLoopBody ==
    /\ takePhase = "loop"
    /\ takePos <= Len(takeCall.tensors)
    /\ LET tensor == takeCall.tensors[takePos]
           t == tensor.type
           size == tensor.bytes
           dict == WithDefault(buf_dict, t)
           i == KeyIndex(dict, t)
           yields == NeedsYield(dict[i].size, size, takeCall.size_limit)
           buf_and_size == IF yields THEN [t |-> t, buf |-> <<>>, size |-> 0] ELSE dict[i]
       IN /\ chunks' = IF yields THEN Append(chunks, dict[i].buf) ELSE chunks
          /\ buf_dict' = [dict EXCEPT ![i] = [t |-> t,
                                              buf |-> Append(buf_and_size.buf, tensor),
                                              size |-> buf_and_size.size + size]]
    /\ takePos' = takePos + 1
    /\ UNCHANGED <<takeCall, takePhase, reordered>>
    /\ UNCHANGED notTakeVars

RECURSIVE NonEmptyBufs(_)
\* the buffers of buf_dict.values() that hold a tensor, in the dict's order
NonEmptyBufs(dict) ==
    IF dict = <<>> THEN <<>>
    ELSE (IF Len(Head(dict).buf) > 0 THEN <<Head(dict).buf>> ELSE <<>>)
             \o NonEmptyBufs(Tail(dict))

\* the loop over buf_dict.values() after the last tensor; the generator is
\* then exhausted
TakeFinalLoop ==
    /\ takePhase = "loop"
    /\ takePos > Len(takeCall.tensors)
    /\ chunks' = chunks \o NonEmptyBufs(buf_dict)
    /\ takePhase' = "exhausted"
    /\ UNCHANGED <<takeCall, takePos, buf_dict, reordered>>
    /\ UNCHANGED notTakeVars

RECURSIVE Concat(_)
\* the chunks one after the other
Concat(seqs) == IF seqs = <<>> THEN <<>> ELSE Head(seqs) \o Concat(Tail(seqs))

\* type_dict[t]: the tensors of type t, in their order
OfType(tensors, t) == SelectSeq(tensors, LAMBDA x : x.type = t)

\* a reordering that does not group by type
ReorderTensorsAsGiven(tensors, ordered_tensors) ==
    [i \in DOMAIN ordered_tensors |-> tensors[i]]

\* _reorder_tensors_as: for each tensor of ordered_tensors the next one of its
\* type from tensors
ReorderTensorsAs(tensors, ordered_tensors) ==
    [i \in DOMAIN ordered_tensors |->
        LET t == ordered_tensors[i].type
        IN OfType(tensors, t)[Len(OfType(SubSeq(ordered_tensors, 1, i), t))]]

\* _reorder_tensors_as(chunks one after the other, tensors)
ReorderCall ==
    /\ takePhase = "exhausted"
    /\ reordered' = ReorderTensorsAs(Concat(chunks), takeCall.tensors)
    /\ takePhase' = "reordered"
    /\ UNCHANGED <<takeCall, takePos, buf_dict, chunks>>
    /\ UNCHANGED notTakeVars

TakeNext ==
    \/ TakeTensorsCall
    \/ TakeLoopBody
    \/ TakeFinalLoop
    \/ ReorderCall

----------------------------------------------------------------------------
(* _get_device_index(device, optional, allow_cpu).  An Optional[int] is a  *)
(* sequence: <<>> for None, <<i>> for the integer i.  What the function    *)
(* reads of the runtime (which accelerators are available, their current   *)
(* device, whether it runs scripted) is drawn with its arguments.          *)

NoIndex == <<>>

DeviceIndices == {NoIndex} \cup {<<i>> : i \in 0 .. MaxDevice}

\* the runtime: for each accelerator module NoIndex when it is not available,
\* its current_device() otherwise; the custom backend is the privateuse1 one
Runtimes ==
    [cuda : DeviceIndices, xpu : DeviceIndices, custom : DeviceIndices, scripting : BOOLEAN]

NoRuntime == [cuda |-> NoIndex, xpu |-> NoIndex, custom |-> NoIndex, scripting |-> FALSE]

DeviceTypes == {"cpu", "cuda", "xpu", "privateuseone"}

\* a device argument: None, a Python integer, a torch.device, or a string
\* "type" or "type:index" given as its parts
DeviceArg(kind, type, index, text) ==
    [kind |-> kind, type |-> type, index |-> index, text |-> text]

DeviceArgs ==
    {DeviceArg("none", "", NoIndex, <<>>)}
        \cup {DeviceArg("int", "", <<i>>, <<>>) : i \in -1 .. MaxDevice}
        \cup {DeviceArg("device", t, i, <<>>) : t \in DeviceTypes, i \in DeviceIndices}
        \cup {DeviceArg("str", "", NoIndex, <<t>> \o i) : t \in DeviceTypes, i \in DeviceIndices}

\* torch.device(str): the type before the colon, the index after it
TorchDevice(device) ==
    DeviceArg("device", device.text[1],
              IF Len(device.text) > 1 THEN <<device.text[2]>> ELSE NoIndex, <<>>)

\* _get_available_device_type
GetAvailableDeviceType(runtime) ==
    IF runtime.cuda # NoIndex THEN "cuda"
    ELSE IF runtime.xpu # NoIndex THEN "xpu"
    ELSE IF runtime.custom # NoIndex THEN "privateuseone"
    ELSE None

\* _get_current_device_index: _get_device_attr(lambda m: m.current_device())
GetCurrentDeviceIndex(runtime) ==
    LET device_type == GetAvailableDeviceType(runtime)
    IN IF device_type = "cuda" THEN runtime.cuda
       ELSE IF device_type = "xpu" THEN runtime.xpu
       ELSE IF device_type = "privateuseone" THEN runtime.custom
       ELSE NoIndex

\* the scriptable get_current_device_index: CUDA's current device, or -1
get_current_device_index(runtime) ==
    IF runtime.cuda # NoIndex THEN runtime.cuda ELSE <<-1>>

DevReturned(idx) == [outcome |-> "returned", error |-> "none", value |-> idx]

DevRaised(error) == [outcome |-> "raised", error |-> error, value |-> NoIndex]

\* an index taken from the device whatever its type
IndexOfDevicePlain(device) == device.index

\* device_idx = -1 if device.type == "cpu" else device.index
IndexOfDevice(device) ==
    IF device.type = "cpu" THEN <<-1>> ELSE device.index

\* _get_device_index
GetDeviceIndex(runtime, device_arg, optional, allow_cpu) ==
    LET device == IF device_arg.kind = "str" THEN TorchDevice(device_arg) ELSE device_arg
    IN IF device.kind = "device" /\ ~allow_cpu /\ device.type = "cpu"
       THEN DevRaised("ValueError")
       ELSE LET idx1 == IF device.kind = "device" THEN IndexOfDevice(device) ELSE NoIndex
                device_idx == IF device.kind = "int" THEN device.index ELSE idx1
            IN IF device_idx # NoIndex THEN DevReturned(device_idx)
               ELSE IF ~optional THEN DevRaised("ValueError")
               ELSE IF runtime.scripting
               THEN DevReturned(get_current_device_index(runtime))
               ELSE DevReturned(GetCurrentDeviceIndex(runtime))

NoDevCall ==
    [called |-> FALSE, runtime |-> NoRuntime, device |-> DeviceArg("none", "", NoIndex, <<>>),
     optional |-> FALSE, allow_cpu |-> FALSE, result |-> DevRaised("none")]

DeviceInit == devCall = NoDevCall

GetDeviceIndexCall ==
    /\ ~devCall.called
    /\ \E runtime \in Runtimes, device \in DeviceArgs, optional \in BOOLEAN,
          allow_cpu \in BOOLEAN :
            devCall' = [called |-> TRUE, runtime |-> runtime, device |-> device,
                        optional |-> optional, allow_cpu |-> allow_cpu,
                        result |-> GetDeviceIndex(runtime, device, optional, allow_cpu)]
    /\ UNCHANGED notDeviceVars

DeviceNext == GetDeviceIndexCall

----------------------------------------------------------------------------
(* torch/compiler/__init__.py: the import of the module and the wrappers    *)
(* list_mode_options and disable.  A dictionary is the set of its items.   *)

\* the mode table of torch._inductor.list_mode_options: for each mode the
\* options it turns on
InductorModeOptions ==
    {[mode |-> "default", options |-> {}],
     [mode |-> "reduce-overhead", options |-> {"triton.cudagraphs"}],
     [mode |-> "max-autotune-no-cudagraphs", options |-> {"max_autotune"}],
     [mode |-> "max-autotune", options |-> {"max_autotune", "triton.cudagraphs"}]}

ModeNames == {m.mode : m \in InductorModeOptions}

\* the mode arguments: None, a mode of the table, a name that is no mode
ModeArgs == {None} \cup ModeNames \cup {"no-such-mode"}

\* the options of one mode
OptionsOf(mode) == (CHOOSE m \in InductorModeOptions : m.mode = mode).options

AllModes == [outcome |-> "returned", error |-> "none", kind |-> "all_modes",
             modes |-> InductorModeOptions, options |-> {}]

OneMode(mode) == [outcome |-> "returned", error |-> "none", kind |-> "one_mode",
                  modes |-> {}, options |-> OptionsOf(mode)]

CompilerRaised(error) == [outcome |-> "raised", error |-> error, kind |-> "none",
                          modes |-> {}, options |-> {}]

\* torch._inductor.list_mode_options(mode):
\* mode_options[mode] if mode else mode_options
InductorListModeOptions(mode) ==
    IF mode = None THEN AllModes
    ELSE IF mode \in ModeNames THEN OneMode(mode)
    ELSE CompilerRaised("KeyError")

\* the body of list_mode_options: the mode is not passed on
ListModeOptions(mode) == InductorListModeOptions(None)

\* the fn arguments of disable: None, a function
FnArgs == {None, "fn"}

\* what disable returns: a DisableContext, the function wrapped by one, the
\* function wrapped by skip
DisableResult(kind) == [outcome |-> "returned", error |-> "none", kind |-> kind,
                        modes |-> {}, options |-> {}]

\* torch._dynamo.disable(fn=None, recursive=True): DisableContext()(fn) or
\* DisableContext() when recursive, skip(fn) otherwise
DynamoDisable(fn, recursive) ==
    IF recursive
    THEN IF fn # None THEN DisableResult("disabled_fn") ELSE DisableResult("DisableContext")
    ELSE DisableResult("skipped_fn")

\* the body of disable: neither argument is passed on
Disable(fn, recursive) == DynamoDisable(None, TRUE)

\* the annotations Tuple[Any] and Dict[str, Any] name Any and Dict, which the
\* module does not import: evaluated at definition they raise NameError
\* (Python up to 3.13), evaluated on demand they do not (from 3.14)
ImportOutcome(annotationsAtDefinition) ==
    IF annotationsAtDefinition THEN "failed" ELSE "imported"

CompilerInit ==
    /\ compilerModule = "not imported"
    /\ compilerCalls = <<>>

\* import torch.compiler
ImportCompiler(annotationsAtDefinition) ==
    /\ compilerModule = "not imported"
    /\ compilerModule' = ImportOutcome(annotationsAtDefinition)
    /\ UNCHANGED compilerCalls
    /\ UNCHANGED notCompilerVars

\* torch.compiler.list_mode_options(mode); with the import failed the caller
\* gets the NameError of the import
ListModeOptionsCall(mode) ==
    /\ compilerModule # "not imported"
    /\ Len(compilerCalls) < MaxCalls
    /\ compilerCalls' =
         Append(compilerCalls,
                [op |-> "list_mode_options", mode |-> mode, fn |-> None, recursive |-> TRUE,
                 result |-> IF compilerModule = "failed" THEN CompilerRaised("NameError")
                            ELSE ListModeOptions(mode)])
    /\ UNCHANGED compilerModule
    /\ UNCHANGED notCompilerVars

\* torch.compiler.disable(fn, recursive)
DisableCall(fn, recursive) ==
    /\ compilerModule # "not imported"
    /\ Len(compilerCalls) < MaxCalls
    /\ compilerCalls' =
         Append(compilerCalls,
                [op |-> "disable", mode |-> None, fn |-> fn, recursive |-> recursive,
                 result |-> IF compilerModule = "failed" THEN CompilerRaised("NameError")
                            ELSE Disable(fn, recursive)])
    /\ UNCHANGED compilerModule
    /\ UNCHANGED notCompilerVars

CompilerNext ==
    \/ \E annotationsAtDefinition \in BOOLEAN : ImportCompiler(annotationsAtDefinition)
    \/ \E mode \in ModeArgs : ListModeOptionsCall(mode)
    \/ \E fn \in FnArgs, recursive \in BOOLEAN : DisableCall(fn, recursive)

----------------------------------------------------------------------------
(* The components share no state: one specification for each. *)

Init ==
    /\ SparseInit
    /\ ExcInit
    /\ RebuildInit
    /\ TakeInit
    /\ DeviceInit
    /\ CompilerInit

SpecSparse == Init /\ [][SparseNext]_vars

SpecExc == Init /\ [][ExcNext]_vars

SpecRebuild == Init /\ [][RebuildNext]_vars

SpecTake == Init /\ [][TakeNext]_vars

SpecDevice == Init /\ [][DeviceNext]_vars

SpecCompiler == Init /\ [][CompilerNext]_vars

----------------------------------------------------------------------------
(* Properties of the deferred validation. *)

Pending == sparse_tensors_to_validate

IsPrefix(s, t) == Len(s) <= Len(t) /\ SubSeq(t, 1, Len(s)) = s

\* a well-formed call: a sparse layout and a data tuple of a length it unpacks
WellFormedRebuild(layout, data) ==
    \/ layout = "sparse_coo"
    \/ layout \in SparseCompressedLayouts /\ data.len = 4

OutOfBounds(indices, size) == ~(indices >= 0 /\ indices < size)

\* C1: once _validate_loaded_sparse_tensors has handed control back, by
\* returning or by raising, the pending list is empty, whatever rebuild
\* calls came before it.
C1_DrainEmptiesList ==
    lastCall.op = "validate" => Pending = <<>>

\* a drain over COO and compressed entries that raised
C1_Witness ==
    /\ lastCall.op = "validate"
    /\ lastCall.outcome = "raised"
    /\ \E i, j \in 1 .. Len(lastCall.before) :
          /\ lastCall.before[i].layout = "sparse_coo"
          /\ lastCall.before[j].layout \in SparseCompressedLayouts
    /\ Pending = <<>>

\* C2: a structural violation is never reported by _rebuild_sparse_tensor:
\* a well-formed rebuild call whose indices are out of bounds returns and
\* registers the tensor with those indices, and a structural error is the
\* outcome of a _validate_loaded_sparse_tensors call only.
C2_StructuralErrorOnlyAtDrain ==
    /\ lastCall.error = "StructuralError" => lastCall.op = "validate"
    /\ ( /\ lastCall.op = "rebuild"
         /\ WellFormedRebuild(lastCall.layout, lastCall.data)
         /\ OutOfBounds(lastCall.data.indices, lastCall.data.size) )
       => /\ lastCall.outcome = "returned"
          /\ lastCall.result.indices = lastCall.data.indices
          /\ Pending = Append(lastCall.before, lastCall.result)

\* a drain raised the structural error of a COO tensor that a rebuild had
\* registered with an index out of bounds
C2_Witness ==
    /\ lastCall.op = "validate"
    /\ lastCall.error = "StructuralError"
    /\ \E i \in 1 .. Len(lastCall.before) :
          /\ lastCall.before[i].layout = "sparse_coo"
          /\ OutOfBounds(lastCall.before[i].indices, lastCall.before[i].size)
          /\ examined[Len(examined)] = lastCall.before[i]

\* C3: the pending list starts empty; a rebuild call that returns appends
\* the tensor it returns, once, at the end, and leaves the earlier entries
\* as they were; a rebuild call that raises leaves the list alone; only a
\* drain takes entries away.
C3_AppendOnlyBetweenDrains ==
    /\ Pending = <<>>
    /\ [][ /\ (nextId' # nextId /\ lastCall'.outcome = "returned")
               => /\ Pending' = Append(Pending, lastCall'.result)
                  /\ lastCall'.result.layout = lastCall'.layout
                  /\ lastCall'.layout \in SparseLayouts
           /\ (nextId' # nextId /\ lastCall'.outcome = "raised") => Pending' = Pending
           /\ ~IsPrefix(Pending, Pending') => drains' # drains ]_vars

\* a rebuild of a compressed layout added its tensor behind an earlier entry
C3_Witness ==
    /\ lastCall.op = "rebuild"
    /\ lastCall.outcome = "returned"
    /\ lastCall.layout \in SparseCompressedLayouts
    /\ Len(lastCall.before) >= 1
    /\ Pending = Append(lastCall.before, lastCall.result)

\* C4: after a drain that raised, every later drain examines only tensors
\* that were registered after that drain.
C4_NoStaleEntriesAfterFailedDrain ==
    \A f \in failedDrains :
        f.drain < drains => \A i \in 1 .. Len(examined) : examined[i].id >= f.nextId

\* a drain raised, tensors were rebuilt, and the next drain examined them
C4_Witness ==
    /\ lastCall.op = "validate"
    /\ examined # <<>>
    /\ \E f \in failedDrains : f.drain < drains /\ f.nextId > 1

----------------------------------------------------------------------------
(* Properties of ExceptionWrapper. *)

\* the origin label of the snapshot: the one given, "in background" otherwise
LabelOf(args) == IF args.where = <<>> THEN <<"in background">> ELSE args.where

\* "Caught <name of K> <L>." newline "Original " T
ExpectedMessage ==
    <<"Caught ", wrapper.exc_type.name, " ">> \o LabelOf(captureArgs)
        \o <<".", "\n", "Original ">> \o wrapper.exc_msg

\* reraise() has been called on a snapshot of an error
Reraised == reraises > 0 /\ wrapper.exc_type # NoExcType

\* the class takes the message the way reraise() passes it to it
AcceptsAsPassed(type) ==
    IF type.isKeyError \/ ~type.message THEN type.ctorPos = "ok" ELSE type.ctorKw = "ok"

\* the context an error is reported with: none when it is suppressed
ChainedContext(e) == IF e.suppress_context THEN None ELSE e.context

\* the generic runtime error carrying the composite message, with the
\* construction error out of its chain
IsFallback(r) ==
    /\ ~r.returned
    /\ r.exc.type = RuntimeErrorType
    /\ r.exc.arg.text = ExpectedMessage
    /\ r.exc.cause = None
    /\ ChainedContext(r.exc) = None

\* C5: no reraise() call returns normally, whatever the class captured
\* (none included) and whatever the origin label: each ends by raising.
C5_ReraiseAlwaysRaises ==
    reraises > 0 => ~lastRaised.returned /\ lastRaised.origin # "none"

\* reraise() of a ValueError captured "in worker 3" raised
C5_Witness ==
    /\ reraises > 0
    /\ wrapper.exc_type = ValueErrorType
    /\ wrapper.where = <<"in worker 3">>
    /\ ~lastRaised.returned

C7_AsStated ==
    (Reraised /\ wrapper.exc_type.ctorPos = "TypeError"
              /\ wrapper.exc_type.ctorKw = "TypeError")
        => IsFallback(lastRaised)

\* the construction error of a class with a `message` attribute and two
\* required arguments came out of reraise()
C7_FailingState ==
    /\ Reraised
    /\ wrapper.exc_type.name = "MessageTwoArgsError"
    /\ lastRaised.exc.type = TypeErrorType
    /\ lastRaised.origin = "constructor"

\* the construction of an error of the captured class fails
ConstructionFails(type) == ~AcceptsAsPassed(type)

\* C8 as stated: no error raised by constructing the captured class comes out
\* of reraise(); on the positional path and on the message= path alike, a
\* failed construction ends in the generic RuntimeError with the composite
\* message.
C8_AsStated ==
    Reraised
        => /\ lastRaised.origin # "constructor"
           /\ ConstructionFails(wrapper.exc_type) => IsFallback(lastRaised)

\* the TypeError of exc_type(message=msg) came out of reraise()
C8_FailingState ==
    /\ Reraised
    /\ wrapper.exc_type.name = "MessageAttrError"
    /\ lastRaised.exc.type = TypeErrorType
    /\ lastRaised.origin = "constructor"

\* C9: reraise() of a captured KeyError raises a KeyError whose argument is a
\* KeyErrorMessage, so that the error displays as the composite message
\* itself, without quotes and with its newlines as they are.
C9_KeyErrorPlainText ==
    (Reraised /\ wrapper.exc_type = KeyErrorType)
        => /\ ~lastRaised.returned
           /\ lastRaised.exc.type = KeyErrorType
           /\ lastRaised.exc.arg.cls = "KeyErrorMessage"
           /\ Display(lastRaised.exc) = ExpectedMessage

\* a KeyError raised again: its display is the message, which the repr of a
\* plain string would have quoted and escaped
C9_Witness ==
    /\ Reraised
    /\ wrapper.exc_type = KeyErrorType
    /\ lastRaised.exc.type = KeyErrorType
    /\ Display(lastRaised.exc) = ExpectedMessage
    /\ StrRepr(lastRaised.exc.arg) # ExpectedMessage
    /\ \E i \in 1 .. Len(ExpectedMessage) : ExpectedMessage[i] = "\n"

\* C10: the wrapper has the three attributes exc_type, exc_msg and where and
\* no other; they are the class, the trace as rendered when the wrapper was
\* constructed and the label, whatever has been done since to the original
\* error and however often reraise() was called.
C10_SnapshotUnchanged ==
    wrapped
        => /\ DOMAIN wrapper = {"exc_type", "exc_msg", "where"}
           /\ wrapper.exc_type = captureArgs.info.type
           /\ wrapper.exc_msg = FormatException(captureArgs.info)
           /\ wrapper.where = LabelOf(captureArgs)

\* the original error was changed after the capture and reraise() was called
\* twice: the rendering of the original now differs from the stored trace
C10_Witness ==
    /\ wrapped
    /\ reraises >= 2
    /\ original.state = "inflight"
    /\ original.exc.arg.text = <<"edited">>
    /\ original.tb = <<>>
    /\ wrapper.exc_type # NoExcType
    /\ wrapper.exc_msg # FormatException(SysExcInfo(original))
    /\ wrapper.exc_msg = FormatException(captureArgs.info)

----------------------------------------------------------------------------
(* Quantized tensors and parameters. *)

\* the last call was _rebuild_qtensor with this scheme tag
QTensorCall(qscheme) ==
    /\ rebuilt.fn = "_rebuild_qtensor"
    /\ rebuilt.args.quantizer_params.qscheme = qscheme

\* scales and zero-points were both given as Python lists
BothLists ==
    /\ rebuilt.args.quantizer_params.scales.container = "list"
    /\ rebuilt.args.quantizer_params.zero_points.container = "list"

\* C11: _rebuild_qtensor with list-typed scales and zero-points returns a
\* tensor whose zero-points are a long tensor when the scheme tag is
\* per_channel_affine and a float tensor when it is
\* per_channel_affine_float_qparams.
C11_ZeroPointsDtype ==
    /\ (QTensorCall("per_channel_affine") /\ BothLists) =>
            /\ rebuilt.result.outcome = "returned"
            /\ rebuilt.result.obj.zero_points
                 = QParam("tensor", "long", rebuilt.args.device)
    /\ (QTensorCall("per_channel_affine_float_qparams") /\ BothLists) =>
            /\ rebuilt.result.outcome = "returned"
            /\ rebuilt.result.obj.zero_points
                 = QParam("tensor", "float", rebuilt.args.device)

C11_Witness ==
    /\ QTensorCall("per_channel_affine")
    /\ BothLists
    /\ rebuilt.result.obj.zero_points.dtype = "long"

\* C12: _rebuild_qtensor with a scheme tag other than per_tensor_affine,
\* per_channel_affine and per_channel_affine_float_qparams raises the
\* unsupported-scheme RuntimeError, returns no tensor, and has made no call
\* before raising: no allocation, no set_ on the storage.
C12_UnsupportedSchemeFails ==
    (/\ rebuilt.fn = "_rebuild_qtensor"
     /\ rebuilt.args.quantizer_params.qscheme
            \notin {"per_tensor_affine"} \cup PerChannelSchemes)
        => /\ rebuilt.result.outcome = "raised"
           /\ rebuilt.result.error = "RuntimeError"
           /\ rebuilt.result.obj = NoObj
           /\ rebuilt.result.effects = <<>>

C12_Witness ==
    /\ QTensorCall("per_channel_symmetric")
    /\ BothLists
    /\ rebuilt.result.outcome = "raised"

\* C13: _rebuild_sparse_tensor with a layout that is none of COO, CSR, CSC,
\* BSR, BSC raises the unsupported-layout NotImplementedError, returns no
\* tensor, and leaves the pending-validation list as it was before the call.
C13_UnsupportedLayoutFails ==
    (lastCall.op = "rebuild" /\ lastCall.layout \notin SparseLayouts)
        => /\ lastCall.outcome = "raised"
           /\ lastCall.error = "NotImplementedError"
           /\ lastCall.result = NoTensor
           /\ sparse_tensors_to_validate = lastCall.before

C13_Witness ==
    /\ lastCall.op = "rebuild"
    /\ lastCall.layout = "strided"
    /\ lastCall.data.len = 4
    /\ lastCall.before # <<>>
    /\ sparse_tensors_to_validate = lastCall.before

\* the last call was _rebuild_parameter_with_state with a tuple of n parts
WithStateTupleCall(n) ==
    /\ rebuilt.fn = "_rebuild_parameter_with_state"
    /\ rebuilt.args.state.isTuple
    /\ Len(rebuilt.args.state.parts) = n

\* C14: _rebuild_parameter_with_state given a tuple whose length is not 2
\* raises the state RuntimeError, and at that point no setattr has been made
\* on the parameter: it is the parameter as constructed, carrying only the
\* backward_hooks argument.
C14_BadTupleSetsNothing ==
    \A n \in (0 .. MaxStateLen) \ {2} :
        WithStateTupleCall(n) =>
            /\ rebuilt.result.outcome = "raised"
            /\ rebuilt.result.error = "RuntimeError"
            /\ rebuilt.result.effects = <<"Parameter">>
            /\ rebuilt.result.obj
                 = StoreHooks(NewParameter(rebuilt.args.requires_grad),
                              rebuilt.args.backward_hooks)
            /\ rebuilt.result.obj.extra = "absent"

C14_Witness ==
    /\ WithStateTupleCall(3)
    /\ rebuilt.args.state.parts[1].extra = "v1"
    /\ rebuilt.args.state.parts[2].hooks = "hooks_of_state"
    /\ rebuilt.result.outcome = "raised"

\* the functions that take the backward_hooks argument
HookCarriers == {"_rebuild_tensor_v2", "_rebuild_qtensor", "_rebuild_parameter",
                 "_rebuild_parameter_with_state"}

\* the value a well-formed state blob gives to _backward_hooks, "absent" when
\* it has no such key; the slots are set after the attributes
HooksOfState(state) ==
    LET slots == IF state.isTuple THEN state.parts[2].hooks ELSE "absent"
    IN IF slots # "absent" THEN slots ELSE state.parts[1].hooks

\* the last call returned an object
ReturnedObject ==
    /\ rebuilt.fn \in HookCarriers
    /\ rebuilt.result.outcome = "returned"

\* C15 as stated: the object returned by _rebuild_tensor_v2, _rebuild_qtensor,
\* _rebuild_parameter and _rebuild_parameter_with_state carries the
\* backward_hooks argument itself, and no hook has been invoked.
C15_AsStated ==
    /\ ReturnedObject => rebuilt.result.obj.hooks = rebuilt.args.backward_hooks
    /\ hooksInvoked = 0

\* C15: the object returned by the four functions carries the backward_hooks
\* argument itself, except that a state blob given to
\* _rebuild_parameter_with_state which has a _backward_hooks key replaces it
\* with its own value; no hook is ever invoked.
C15_HooksCarried ==
    /\ ReturnedObject =>
         IF /\ rebuilt.fn = "_rebuild_parameter_with_state"
            /\ HooksOfState(rebuilt.args.state) # "absent"
         THEN rebuilt.result.obj.hooks = HooksOfState(rebuilt.args.state)
         ELSE rebuilt.result.obj.hooks = rebuilt.args.backward_hooks
    /\ hooksInvoked = 0

C15_Witness ==
    /\ rebuilt.fn = "_rebuild_parameter_with_state"
    /\ rebuilt.result.outcome = "returned"
    /\ rebuilt.args.backward_hooks = "hooks_with_hook"
    /\ rebuilt.args.state.isTuple
    /\ rebuilt.args.state.parts[2].hooks = "absent"
    /\ rebuilt.args.state.parts[1].extra = "v1"
    /\ rebuilt.result.obj.hooks = "hooks_with_hook"

----------------------------------------------------------------------------
(* Chunking. *)

RECURSIVE TotalBytes(_)
\* the byte size of a chunk
TotalBytes(chunk) ==
    IF chunk = <<>> THEN 0 ELSE Head(chunk).bytes + TotalBytes(Tail(chunk))

SingleType(chunk) == \A i, j \in DOMAIN chunk : chunk[i].type = chunk[j].type

\* the chunk is over the limit through its last tensor alone: that tensor is
\* larger than the limit and the ones before it have no bytes
OversizedAlone(chunk, size_limit) ==
    /\ chunk # <<>>
    /\ chunk[Len(chunk)].bytes > size_limit
    /\ \A i \in 1 .. Len(chunk) - 1 : chunk[i].bytes = 0

\* the generator has yielded its last chunk
Exhausted == takePhase \in {"exhausted", "reordered"}

PlacesOf(tensor) ==
    {<<c, j>> \in (DOMAIN chunks) \X (1 .. MaxTake + 1) :
        j \in DOMAIN chunks[c] /\ chunks[c][j] = tensor}

\* C17: _take_tensors partitions its input: once the generator is exhausted
\* each input tensor is in exactly one chunk exactly once and the chunks hold
\* nothing else, no chunk is ever empty, and the tensors of each type appear
\* across the chunks, in yield order, in their order of the input.
C17_Partition ==
    /\ \A c \in DOMAIN chunks : chunks[c] # <<>>
    /\ Exhausted =>
        /\ \A i \in DOMAIN takeCall.tensors :
                Cardinality(PlacesOf(takeCall.tensors[i])) = 1
        /\ Len(Concat(chunks)) = Len(takeCall.tensors)
        /\ \A t \in TensorTypes :
                OfType(Concat(chunks), t) = OfType(takeCall.tensors, t)

C17_Witness ==
    /\ Exhausted
    /\ Len(chunks) = 3
    /\ \E c, d \in DOMAIN chunks : chunks[c][1].type # chunks[d][1].type
    /\ Concat(chunks) # takeCall.tensors

\* C18: for every sequence S and size_limit, _reorder_tensors_as given the
\* chunks of _take_tensors(S, size_limit) one after the other in yield order,
\* and S, returns exactly S.
C18_ReorderRestores ==
    takePhase = "reordered" => reordered = takeCall.tensors

C18_Witness ==
    /\ takePhase = "reordered"
    /\ Len(chunks) > 1
    /\ Concat(chunks) # takeCall.tensors
    /\ reordered = takeCall.tensors

----------------------------------------------------------------------------
(* Device index resolution. *)

\* the device the argument denotes, a string read as torch.device reads it
DenotedDevice ==
    IF devCall.device.kind = "str" THEN TorchDevice(devCall.device) ELSE devCall.device

IsCpuDevice == DenotedDevice.kind = "device" /\ DenotedDevice.type = "cpu"

IsIndexedDevice ==
    /\ DenotedDevice.kind = "device"
    /\ DenotedDevice.type # "cpu"
    /\ DenotedDevice.index # NoIndex

\* None, or a non-CPU device without an index
HasNoIndex ==
    \/ devCall.device.kind = "none"
    \/ /\ DenotedDevice.kind = "device"
       /\ DenotedDevice.type # "cpu"
       /\ DenotedDevice.index = NoIndex

\* the current default device index of the runtime the call ran in: scripted,
\* CUDA's current device or -1; otherwise the current device of the first
\* available of CUDA, XPU and the custom backend, None when there is none
CurrentDefault ==
    LET r == devCall.runtime
    IN IF r.scripting THEN (IF r.cuda # NoIndex THEN r.cuda ELSE <<-1>>)
       ELSE IF r.cuda # NoIndex THEN r.cuda
       ELSE IF r.xpu # NoIndex THEN r.xpu
       ELSE r.custom

----------------------------------------------------------------------------
(* The compiler wrappers. *)

\* C20 as stated: list_mode_options(mode) returns the optimizations of the
\* given mode when a mode is given, and those of all modes when mode is None.
C20_AsStated ==
    \A i \in DOMAIN compilerCalls :
        LET c == compilerCalls[i]
        IN (c.op = "list_mode_options" /\ c.mode \in ModeNames \cup {None}) =>
                c.result = IF c.mode = None THEN AllModes ELSE OneMode(c.mode)

\* a call that names a mode and is given every mode's optimizations
C20_FailingState ==
    \E i \in DOMAIN compilerCalls :
        /\ compilerCalls[i].op = "list_mode_options"
        /\ compilerCalls[i].mode = "max-autotune"
        /\ compilerCalls[i].result = AllModes

\* C21 as stated: disable(fn, recursive) returns the decorated fn when
\* recursive is true and fn is given, a context manager when recursive is true
\* and fn is not given, and the frame-skipping wrapper when recursive is false.
C21_AsStated ==
    \A i \in DOMAIN compilerCalls :
        LET c == compilerCalls[i]
        IN c.op = "disable" =>
                c.result = IF c.recursive
                           THEN (IF c.fn # None THEN DisableResult("disabled_fn")
                                 ELSE DisableResult("DisableContext"))
                           ELSE DisableResult("skipped_fn")

\* a call given a function and recursive=False that is handed a bare
\* DisableContext
C21_FailingState ==
    \E i \in DOMAIN compilerCalls :
        /\ compilerCalls[i].op = "disable"
        /\ compilerCalls[i].fn = "fn"
        /\ ~compilerCalls[i].recursive
        /\ compilerCalls[i].result = DisableResult("DisableContext")

----------------------------------------------------------------------------
(* Order of a drain, and the life of a rebuilt tensor. *)

\* C22: _validate_loaded_sparse_tensors goes through the pending entries in
\* insertion order and stops at the first one whose validation raises: the
\* entries it examined are a prefix of the list, none before the last one
\* examined is offending, the error is that of the last one examined, and the
\* entries after it are gone from the list without having been examined.
C22_FailFastInOrder ==
    lastCall.op = "validate" =>
        /\ IsPrefix(examined, lastCall.before)
        /\ sparse_tensors_to_validate = <<>>
        /\ \A i \in 1 .. Len(examined) - 1 : ValidateEntry(examined[i]) = "none"
        /\ IF lastCall.outcome = "raised"
           THEN /\ examined # <<>>
                /\ ValidateEntry(examined[Len(examined)]) # "none"
                /\ lastCall.error = ValidateEntry(examined[Len(examined)])
           ELSE /\ examined = lastCall.before
                /\ \A i \in DOMAIN examined : ValidateEntry(examined[i]) = "none"

C22_Witness ==
    /\ lastCall.op = "validate"
    /\ lastCall.outcome = "raised"
    /\ Len(lastCall.before) = 2
    /\ Len(examined) = 1
    /\ ValidateEntry(lastCall.before[2]) # "none"
    /\ sparse_tensors_to_validate = <<>>

\* the validations of the tensor, in order
ValidationsOf(id) == SelectSeq(validated, LAMBDA v : v.id = id)

\* C23: as long as no drain has raised (calls never overlap: each is one
\* step), every tensor returned by _rebuild_sparse_tensor has been validated
\* exactly once, by the first drain after its rebuild, once there has been
\* such a drain, and not at all before; no later drain validates it again.
C23_ValidatedOnceByNextDrain ==
    failedDrains = {} =>
        /\ \A r \in registered :
                ValidationsOf(r.id) = IF drains > r.after
                                      THEN <<[id |-> r.id, drain |-> r.after + 1]>>
                                      ELSE <<>>
        /\ \A i \in DOMAIN validated :
                \E r \in registered : r.id = validated[i].id

C23_Witness ==
    /\ failedDrains = {}
    /\ drains = 2
    /\ \E r \in registered : r.after = 0 /\ ValidationsOf(r.id) # <<>>
    /\ \E r \in registered : r.after = 1 /\ ValidationsOf(r.id) # <<>>

\* the last call was _rebuild_qtensor with a per-channel scheme tag
PerChannelCall ==
    /\ rebuilt.fn = "_rebuild_qtensor"
    /\ rebuilt.args.quantizer_params.qscheme \in PerChannelSchemes

\* C24: _rebuild_qtensor for a per-channel scheme promotes scales and
\* zero-points to tensors on the storage's device only when both are lists;
\* when one of them is a list, or neither is, no tensor is built and the
\* allocation receives both as they were given.
C24_PromotionOnlyWhenBothLists ==
    PerChannelCall =>
        IF BothLists
        THEN /\ rebuilt.result.obj.scales.container = "tensor"
             /\ rebuilt.result.obj.scales.device = rebuilt.args.device
             /\ rebuilt.result.obj.zero_points.container = "tensor"
             /\ rebuilt.result.obj.zero_points.device = rebuilt.args.device
             /\ rebuilt.result.effects
                  = <<"tensor", "tensor", "_empty_per_channel_affine_quantized", "set_">>
        ELSE /\ rebuilt.result.obj.scales = rebuilt.args.quantizer_params.scales
             /\ rebuilt.result.obj.zero_points = rebuilt.args.quantizer_params.zero_points
             /\ rebuilt.result.effects = <<"_empty_per_channel_affine_quantized", "set_">>

C24_Witness ==
    /\ PerChannelCall
    /\ rebuilt.args.quantizer_params.scales.container = "list"
    /\ rebuilt.args.quantizer_params.zero_points.container = "tensor"
    /\ rebuilt.result.outcome = "returned"
    /\ rebuilt.result.obj.scales.container = "list"

====
